---------------------------- MODULE Spec2Model ----------------------------
(***************************************************************************)
(* A model of the calculator:                                              *)
(*   app/operation    the Operation arithmetic library,                    *)
(*   app/calculation  the Calculation classes and the CalculationFactory,  *)
(*   app/calculator   the read-eval-print loop calculator().               *)
(* Spec is the factory and the Calculation methods called directly;        *)
(* SpecRepl is calculator() reading lines.                                 *)
(*                                                                         *)
(* Python strings are TLA+ strings, handled character by character.        *)
(* Python floats are exact sign/magnitude rationals [s, n, d] (value       *)
(* s*n/d, d > 0, n/d in lowest terms); the sign is kept apart from the     *)
(* magnitude so that -0.0 is a value of its own, as it is in IEEE 754.     *)
(* The operands are drawn from Operands, whose sums, products, quotients   *)
(* and powers are exactly representable floats, so every result of the     *)
(* model is the float the interpreter computes.                            *)
(***************************************************************************)
EXTENDS Integers, Sequences, FiniteSets, TLC

VARIABLES
    calculations,   \* CalculationFactory._calculations: the ordered dict, a sequence of [key, cls]
    calc,           \* the Calculation instance held by the caller: <<>> or <<[cls, a, b]>>
    kind,           \* the lower-cased name calc was created under ("" while there is none)
    first,          \* the outcome of the first execute() of calc: <<>> or <<outcome>>
    last,           \* the last call made and what it gave back
    history,        \* calculator(): the list history, a sequence of instances
    pc,             \* calculator(): "idle" (not running), "prompt", "exited", "crashed"
    io              \* calculator(): the last line read, the steps taken on it, what was printed

vars == <<calculations, calc, kind, first, last, history, pc, io>>

\* The variables of calculator().
repl == <<history, pc, io>>

(***************************************************************************)
(* Bounds of the model.                                                    *)
(***************************************************************************)
\* How many names beyond the five built-ins may be registered.
MaxExtra == 1

(***************************************************************************)
(* Strings.                                                                *)
(***************************************************************************)
Upper == "ABCDEFGHIJKLMNOPQRSTUVWXYZ"
LowerCase == "abcdefghijklmnopqrstuvwxyz"
Digits == "0123456789"

Char(s, i) == SubSeq(s, i, i)

\* The upper-case ASCII letters, and the lower-case letter of each.
UpperChars == {Char(Upper, i) : i \in 1..Len(Upper)}
ToLower ==
    [c \in UpperChars |-> Char(LowerCase, CHOOSE i \in 1..Len(Upper) : Char(Upper, i) = c)]

\* str.lower() of one character (ASCII letters).
LowerChar(c) == IF c \in UpperChars THEN ToLower[c] ELSE c

RECURSIVE Lower(_)
\* str.lower()
Lower(s) == IF s = "" THEN "" ELSE LowerChar(Char(s, 1)) \o Lower(Tail(s))

(***************************************************************************)
(* The names given to the factory.                                         *)
(***************************************************************************)
\* Names passed to create_calculation: registered and unregistered, in several cases.
CreateNames ==
    {"add", "Subtract", "multiply", "divide", "DIVIDE", "power", "modulo", "Plus"}

\* Names and classes passed to register_calculation after import.
RegisterNames == {"add", "Add", "DIVIDE", "Plus", "modulo"}
RegisterClasses == {"AddCalculation", "DivideCalculation"}

Names == CreateNames \cup RegisterNames

\* Lower of each name, computed once.
LowerTable == [s \in Names |-> Lower(s)]

\* calculation_type.lower()
lower(s) == IF s \in Names THEN LowerTable[s] ELSE Lower(s)

StartsWith(s, p) == Len(p) <= Len(s) /\ SubSeq(s, 1, Len(p)) = p

RECURSIVE Replace(_, _, _)
\* str.replace(old, new) for a non-empty old: every non-overlapping occurrence, left to right.
Replace(s, old, new) ==
    IF s = "" THEN ""
    ELSE IF StartsWith(s, old)
         THEN new \o Replace(SubSeq(s, Len(old) + 1, Len(s)), old, new)
         ELSE Char(s, 1) \o Replace(Tail(s), old, new)

RECURSIVE Join(_, _)
\* sep.join(items)
Join(sep, items) ==
    IF items = <<>> THEN ""
    ELSE IF Len(items) = 1 THEN items[1]
         ELSE items[1] \o sep \o Join(sep, Tail(items))

RECURSIVE NatStr(_)
\* the decimal digits of a natural number
NatStr(n) == IF n < 10 THEN Char(Digits, n + 1)
             ELSE NatStr(n \div 10) \o Char(Digits, (n % 10) + 1)

(***************************************************************************)
(* Floats.                                                                 *)
(***************************************************************************)
RECURSIVE Gcd(_, _)
Gcd(x, y) == IF y = 0 THEN x ELSE Gcd(y, x % y)

\* The float of sign s and magnitude n/d, in lowest terms.
Flt(s, n, d) == LET g == Gcd(n, d) IN [s |-> s, n |-> n \div g, d |-> d \div g]

\* float(i) for an integer i
FromInt(i) == IF i < 0 THEN Flt(-1, -i, 1) ELSE Flt(1, i, 1)

IsZero(x) == x.n = 0          \* x == 0: true of 0.0 and of -0.0
IsNegative(x) == x.s = -1 /\ x.n # 0
IsIntegral(x) == x.d = 1
Neg(x) == [x EXCEPT !.s = -x.s]

\* a + b, IEEE 754 round-to-nearest: an exact zero sum of opposite signs is +0.0
FAdd(x, y) ==
    IF x.s = y.s THEN Flt(x.s, x.n * y.d + y.n * x.d, x.d * y.d)
    ELSE LET l == x.n * y.d
             r == y.n * x.d
         IN  IF l = r THEN Flt(1, 0, 1)
             ELSE IF l > r THEN Flt(x.s, l - r, x.d * y.d)
                  ELSE Flt(y.s, r - l, x.d * y.d)

FSub(x, y) == FAdd(x, Neg(y))
FMul(x, y) == Flt(x.s * y.s, x.n * y.n, x.d * y.d)
\* a / b for b # 0
FDiv(x, y) == Flt(x.s * y.s, x.n * y.d, x.d * y.n)

RECURSIVE NatPow(_, _)
NatPow(b, e) == IF e = 0 THEN 1 ELSE b * NatPow(b, e - 1)

RECURSIVE FracDigits(_, _)
\* the decimal digits of r/d, 0 < r < d, d a power of two (the expansion ends)
FracDigits(r, d) ==
    IF r = 0 THEN ""
    ELSE Char(Digits, ((r * 10) \div d) + 1) \o FracDigits((r * 10) % d, d)

\* repr(x) = str(x) = format(x, "") of a float whose magnitude is 0 or in
\* [1e-4, 1e16), the range in which the interpreter prints no exponent.
FloatStr(x) ==
    (IF x.s = -1 THEN "-" ELSE "")
        \o NatStr(x.n \div x.d) \o "."
        \o (IF x.n % x.d = 0 THEN "0" ELSE FracDigits(x.n % x.d, x.d))


(***************************************************************************)
(* Outcomes of a call: it returns a value or raises an exception.          *)
(***************************************************************************)
Return(v) == [exc |-> "None", msg |-> "", val |-> <<v>>]
Raise(e, m) == [exc |-> e, msg |-> m, val |-> <<>>]

(***************************************************************************)
(* app/operation: the Operation library.                                   *)
(***************************************************************************)
addition(a, b) == Return(FAdd(a, b))

subtraction(a, b) == Return(FSub(a, b))

multiplication(a, b) == Return(FMul(a, b))

division(a, b) ==
    IF IsZero(b)
    THEN Raise("ValueError", "Division by zero is not allowed.")
    ELSE Return(FDiv(a, b))

\* a ** b for an exponent of integral value (float_pow of the interpreter):
\* x ** 0 is 1.0 for every x, 0.0 to a negative power raises ZeroDivisionError,
\* a negative base to an odd power is negative.
power(a, b) ==
    LET e == b.n
        odd == e % 2 = 1
        sgn == IF a.s = -1 /\ odd THEN -1 ELSE 1
    IN  IF IsZero(b) THEN Return(Flt(1, 1, 1))
        ELSE IF IsZero(a)
             THEN IF IsNegative(b)
                  THEN Raise("ZeroDivisionError", "0.0 cannot be raised to a negative power")
                  ELSE Return(Flt(sgn, 0, 1))
             ELSE IF IsNegative(b)
                  THEN Return(Flt(sgn, NatPow(a.d, e), NatPow(a.n, e)))
                  ELSE Return(Flt(sgn, NatPow(a.n, e), NatPow(a.d, e)))

(***************************************************************************)
(* app/calculation: the Calculation classes.  An instance is                *)
(* [cls, a, b]: its class name and its two operands.                       *)
(***************************************************************************)
Calculation(cls, a, b) == [cls |-> cls, a |-> a, b |-> b]

\* What a method call on an instance gives: the outcome, the Operation functions
\* it called, and the instance as the call leaves it.
Ran(outcome, calls, self) ==
    [exc |-> outcome.exc, msg |-> outcome.msg, val |-> outcome.val, calls |-> calls,
     self |-> self]

\* A variant of AddCalculation.execute that calls the wrong library function.
AddCalculation_execute_subtracting(self) ==
    Ran(subtraction(self.a, self.b), << <<"subtraction", self.a, self.b>> >>, self)

AddCalculation_execute(self) ==
    Ran(addition(self.a, self.b), << <<"addition", self.a, self.b>> >>, self)

SubtractCalculation_execute(self) ==
    Ran(subtraction(self.a, self.b), << <<"subtraction", self.a, self.b>> >>, self)

MultiplyCalculation_execute(self) ==
    Ran(multiplication(self.a, self.b), << <<"multiplication", self.a, self.b>> >>, self)

\* A variant of DivideCalculation.execute whose zero-check tests the wrong operand.
DivideCalculation_execute_checking_a(self) ==
    IF IsZero(self.a)
    THEN Ran(Raise("ZeroDivisionError", "Cannot divide by zero."), <<>>, self)
    ELSE Ran(division(self.a, self.b), << <<"division", self.a, self.b>> >>, self)

\* A variant of DivideCalculation.execute without its own zero-check.
DivideCalculation_execute_unguarded(self) ==
    Ran(division(self.a, self.b), << <<"division", self.a, self.b>> >>, self)

DivideCalculation_execute(self) ==
    IF IsZero(self.b)
    THEN Ran(Raise("ZeroDivisionError", "Cannot divide by zero."), <<>>, self)
    ELSE Ran(division(self.a, self.b), << <<"division", self.a, self.b>> >>, self)

\* A variant of PowerCalculation.execute that keeps its result in the first operand.
PowerCalculation_execute_storing(self) ==
    LET r == power(self.a, self.b)
    IN  Ran(r, << <<"power", self.a, self.b>> >>,
            IF r.exc = "None" THEN [self EXCEPT !.a = r.val[1]] ELSE self)

PowerCalculation_execute(self) ==
    Ran(power(self.a, self.b), << <<"power", self.a, self.b>> >>, self)

\* self.execute(): dispatch on the class of the instance
execute(self) ==
    CASE self.cls = "AddCalculation" -> AddCalculation_execute(self)
      [] self.cls = "SubtractCalculation" -> SubtractCalculation_execute(self)
      [] self.cls = "MultiplyCalculation" -> MultiplyCalculation_execute(self)
      [] self.cls = "DivideCalculation" -> DivideCalculation_execute(self)
      [] self.cls = "PowerCalculation" -> PowerCalculation_execute(self)

\* A variant of Calculation.__str__ that does not strip "Calculation" from the label.
Calculation_str_unstripped(self) ==
    LET result == execute(self)
        after == result.self
        operation_name == after.cls
    IN  IF result.exc # "None"
        THEN [exc |-> result.exc, msg |-> result.msg, val |-> <<>>, text |-> "",
              calls |-> result.calls, self |-> after]
        ELSE [exc |-> "None", msg |-> "", val |-> result.val,
              text |-> after.cls \o ": " \o FloatStr(after.a) \o " " \o operation_name
                       \o " " \o FloatStr(after.b) \o " = " \o FloatStr(result.val[1]),
              calls |-> result.calls, self |-> after]

\* Calculation.__str__: runs execute() first, whose exception propagates
Calculation_str(self) ==
    LET result == execute(self)
        after == result.self
        operation_name == Replace(after.cls, "Calculation", "")
    IN  IF result.exc # "None"
        THEN [exc |-> result.exc, msg |-> result.msg, val |-> <<>>, text |-> "",
              calls |-> result.calls, self |-> after]
        ELSE [exc |-> "None", msg |-> "", val |-> result.val,
              text |-> after.cls \o ": " \o FloatStr(after.a) \o " " \o operation_name
                       \o " " \o FloatStr(after.b) \o " = " \o FloatStr(result.val[1]),
              calls |-> result.calls, self |-> after]

\* A variant of Calculation.__repr__ that runs execute() as __str__ does.
Calculation_repr_executing(self) ==
    LET result == execute(self)
    IN  [exc |-> result.exc, msg |-> result.msg, val |-> <<>>,
         text |-> IF result.exc # "None" THEN ""
                  ELSE self.cls \o "(a=" \o FloatStr(self.a) \o ", b=" \o FloatStr(self.b)
                       \o ")",
         calls |-> result.calls, self |-> result.self]

\* Calculation.__repr__
Calculation_repr(self) ==
    [exc |-> "None", msg |-> "", val |-> <<>>,
     text |-> self.cls \o "(a=" \o FloatStr(self.a) \o ", b=" \o FloatStr(self.b) \o ")",
     calls |-> <<>>, self |-> self]

(***************************************************************************)
(* app/calculation: the CalculationFactory.  The dict _calculations is a   *)
(* sequence of [key, cls] in insertion order, its keys distinct.           *)
(***************************************************************************)
\* A variant of the key listing that gives the newest key first.
Keys_reversed(reg) == [i \in 1..Len(reg) |-> reg[Len(reg) + 1 - i].key]

\* list(_calculations.keys()): the keys in insertion order
Keys(reg) == [i \in 1..Len(reg) |-> reg[i].key]

Has(reg, k) == \E i \in 1..Len(reg) : reg[i].key = k

\* dict.get(k): <<cls>>, or <<>> for None
Get(reg, k) ==
    IF Has(reg, k) THEN <<reg[CHOOSE i \in 1..Len(reg) : reg[i].key = k].cls>> ELSE <<>>

\* A variant of register_calculation without the duplicate check: the dict
\* assignment overwrites the class of a key already present.
register_calculation_overwriting(reg, calculation_type, subclass) ==
    LET calculation_type_lower == lower(calculation_type)
    IN  IF Has(reg, calculation_type_lower)
        THEN [exc |-> "None", msg |-> "",
              reg |-> [i \in 1..Len(reg) |->
                          IF reg[i].key = calculation_type_lower
                          THEN [key |-> calculation_type_lower, cls |-> subclass]
                          ELSE reg[i]]]
        ELSE [exc |-> "None", msg |-> "",
              reg |-> Append(reg, [key |-> calculation_type_lower, cls |-> subclass])]

\* A variant of register_calculation that rebinds the dict to a new one holding
\* only the new entry.
register_calculation_rebinding(reg, calculation_type, subclass) ==
    LET calculation_type_lower == lower(calculation_type)
    IN  IF Has(reg, calculation_type_lower)
        THEN [exc |-> "ValueError",
              msg |-> "Calculation type '" \o calculation_type \o "' is already registered.",
              reg |-> reg]
        ELSE [exc |-> "None", msg |-> "",
              reg |-> <<[key |-> calculation_type_lower, cls |-> subclass]>>]

\* CalculationFactory.register_calculation(calculation_type)(subclass) on the dict reg
register_calculation(reg, calculation_type, subclass) ==
    LET calculation_type_lower == lower(calculation_type)
    IN  IF Has(reg, calculation_type_lower)
        THEN [exc |-> "ValueError",
              msg |-> "Calculation type '" \o calculation_type \o "' is already registered.",
              reg |-> reg]
        ELSE [exc |-> "None", msg |-> "",
              reg |-> Append(reg, [key |-> calculation_type_lower, cls |-> subclass])]

\* A variant of create_calculation that looks the name up as given.
create_calculation_case_sensitive(reg, calculation_type, a, b) ==
    LET calculation_class == Get(reg, calculation_type)
        available_types == Join(", ", Keys(reg))
    IN  IF calculation_class = <<>>
        THEN [exc |-> "ValueError",
              msg |-> "Unsupported calculation type: '" \o calculation_type
                      \o "'. Available types: " \o available_types,
              obj |-> <<>>]
        ELSE [exc |-> "None", msg |-> "",
              obj |-> <<Calculation(calculation_class[1], a, b)>>]

\* CalculationFactory.create_calculation(calculation_type, a, b) on the dict reg
create_calculation(reg, calculation_type, a, b) ==
    LET calculation_type_lower == lower(calculation_type)
        calculation_class == Get(reg, calculation_type_lower)
        available_types == Join(", ", Keys(reg))
    IN  IF calculation_class = <<>>
        THEN [exc |-> "ValueError",
              msg |-> "Unsupported calculation type: '" \o calculation_type
                      \o "'. Available types: " \o available_types,
              obj |-> <<>>]
        ELSE [exc |-> "None", msg |-> "",
              obj |-> <<Calculation(calculation_class[1], a, b)>>]

\* The @register_calculation decorators of the module, in the order they run at import.
BuiltinDecorators ==
    << <<"add", "AddCalculation">>, <<"subtract", "SubtractCalculation">>,
       <<"multiply", "MultiplyCalculation">>, <<"divide", "DivideCalculation">>,
       <<"power", "PowerCalculation">> >>

RECURSIVE Import(_, _)
\* The dict after the first n decorators have run on the empty dict.
Import(decorators, n) ==
    IF n = 0 THEN <<>>
    ELSE register_calculation(Import(decorators, n - 1),
                              decorators[n][1], decorators[n][2]).reg

(***************************************************************************)
(* The inputs of the model.                                                *)
(***************************************************************************)
\* Operands: floats whose quotients and powers are exact.
Operands == {FromInt(-2), FromInt(0), FromInt(1)}

(***************************************************************************)
(* The state machine.                                                      *)
(***************************************************************************)
\* A call and what it gave: the operation, its name argument ("" if none), its
\* operand arguments (<<>> if none), the exception raised ("None" if it returned)
\* and its message, the float returned by the execute() it ran (<<>> if none),
\* the string returned ("" if none), and the Operation functions it called.
Call(op, name, args, exc, msg, val, text, calls) ==
    [op |-> op, name |-> name, args |-> args, exc |-> exc, msg |-> msg, val |-> val,
     text |-> text, calls |-> calls]

\* What calculator() did with a line: the line as read, the steps taken on it
\* in order, the lines printed, and the branch that ended the iteration.
Io(line, steps, out, path) == [line |-> line, steps |-> steps, out |-> out, path |-> path]

\* After the import of app.calculation: the five built-ins are registered.
\* calculator() is not running.
Init ==
    /\ calculations = Import(BuiltinDecorators, Len(BuiltinDecorators))
    /\ calc = <<>>
    /\ kind = ""
    /\ first = <<>>
    /\ last = Call("import", "", <<>>, "None", "", <<>>, "", <<>>)
    /\ history = <<>>
    /\ pc = "idle"
    /\ io = Io("", <<>>, <<>>, "")

\* @CalculationFactory.register_calculation(name) applied to subclass
Register(name, subclass) ==
    LET r == register_calculation(calculations, name, subclass)
    IN  /\ r.exc = "None" => Len(calculations) < Len(BuiltinDecorators) + MaxExtra
        /\ calculations' = r.reg
        /\ last' = Call("register", name, <<>>, r.exc, r.msg, <<>>, "", <<>>)
        /\ UNCHANGED <<calc, kind, first>>
        /\ UNCHANGED repl

\* calculation = CalculationFactory.create_calculation(name, a, b)
\* (when it raises, the caller's variable keeps what it held)
Create(name, a, b) ==
    LET r == create_calculation(calculations, name, a, b)
    IN  /\ last' = Call("create", name, <<a, b>>, r.exc, r.msg, <<>>, "", <<>>)
        /\ IF r.exc = "None"
           THEN /\ calc' = r.obj
                /\ kind' = lower(name)
                /\ first' = <<>>
           ELSE UNCHANGED <<calc, kind, first>>
        /\ UNCHANGED calculations
        /\ UNCHANGED repl

\* The outcome of the first execute() of the instance is remembered.
Observe(r) == IF first = <<>> THEN <<[exc |-> r.exc, msg |-> r.msg, val |-> r.val]>> ELSE first

\* calculation.execute()
Execute ==
    /\ calc # <<>>
    /\ LET r == execute(calc[1])
       IN  /\ last' = Call("execute", "", <<>>, r.exc, r.msg, r.val, "", r.calls)
           /\ calc' = <<r.self>>
           /\ first' = Observe(r)
    /\ UNCHANGED <<calculations, kind>>
    /\ UNCHANGED repl

\* str(calculation)
Str ==
    /\ calc # <<>>
    /\ LET r == Calculation_str(calc[1])
       IN  /\ last' = Call("str", "", <<>>, r.exc, r.msg, r.val, r.text, r.calls)
           /\ calc' = <<r.self>>
           /\ first' = Observe(r)
    /\ UNCHANGED <<calculations, kind>>
    /\ UNCHANGED repl

\* repr(calculation)
Repr ==
    /\ calc # <<>>
    /\ LET r == Calculation_repr(calc[1])
       IN  /\ last' = Call("repr", "", <<>>, r.exc, r.msg, r.val, r.text, r.calls)
           /\ calc' = <<r.self>>
    /\ UNCHANGED <<calculations, kind, first>>
    /\ UNCHANGED repl

Next ==
    \/ \E name \in RegisterNames, subclass \in RegisterClasses : Register(name, subclass)
    \/ \E name \in CreateNames, a \in Operands, b \in Operands : Create(name, a, b)
    \/ Execute
    \/ Str
    \/ Repr

Spec == Init /\ [][Next]_vars

(***************************************************************************)
(* app/calculator: reading a line.  The lines are ASCII; the only          *)
(* whitespace in them is the space.  The operand tokens are decimal        *)
(* numerals (sign, digits, point) or not numbers at all: float() also      *)
(* reads exponents, underscores, "inf" and "nan", which are not modelled.  *)
(***************************************************************************)
RECURSIVE LStrip(_)
\* str.lstrip()
LStrip(s) == IF s # "" /\ Char(s, 1) = " " THEN LStrip(Tail(s)) ELSE s

RECURSIVE RStrip(_)
\* str.rstrip()
RStrip(s) ==
    IF s # "" /\ Char(s, Len(s)) = " " THEN RStrip(SubSeq(s, 1, Len(s) - 1)) ELSE s

\* str.strip()
Strip(s) == RStrip(LStrip(s))

RECURSIVE Word(_)
\* the longest prefix of s without a space
Word(s) == IF s = "" \/ Char(s, 1) = " " THEN "" ELSE Char(s, 1) \o Word(Tail(s))

RECURSIVE Split(_)
\* str.split(): the maximal runs of non-space characters, in order
Split(s) ==
    LET t == LStrip(s)
        w == Word(t)
    IN  IF t = "" THEN <<>> ELSE <<w>> \o Split(SubSeq(t, Len(w) + 1, Len(t)))

DigitChars == {Char(Digits, i) : i \in 1..Len(Digits)}
DigitValue(c) == (CHOOSE i \in 1..Len(Digits) : Char(Digits, i) = c) - 1

AllDigits(s) == \A i \in 1..Len(s) : Char(s, i) \in DigitChars

RECURSIVE NatValue(_)
\* the number a string of digits writes ("" writes 0)
NatValue(s) ==
    IF s = "" THEN 0
    ELSE 10 * NatValue(SubSeq(s, 1, Len(s) - 1)) + DigitValue(Char(s, Len(s)))

\* float(s) of a token: an optional sign, digits, an optional point and digits,
\* with a digit somewhere; anything else raises ValueError.  "-0" is -0.0.
ParseFloat(s) ==
    LET signed == s # "" /\ Char(s, 1) \in {"+", "-"}
        sgn == IF signed /\ Char(s, 1) = "-" THEN -1 ELSE 1
        body == IF signed THEN Tail(s) ELSE s
        whole == Word(Replace(body, ".", " "))
        pointed == Len(whole) < Len(body)
        frac == IF pointed THEN SubSeq(body, Len(whole) + 2, Len(body)) ELSE ""
    IN  IF AllDigits(whole) /\ AllDigits(frac) /\ Len(whole) + Len(frac) > 0
           /\ (pointed => Char(body, Len(whole) + 1) = ".")
        THEN Return(Flt(sgn, NatValue(whole \o frac), NatPow(10, Len(frac))))
        ELSE Raise("ValueError", "could not convert string to float: '" \o s \o "'")

(***************************************************************************)
(* app/calculator: calculator().                                           *)
(***************************************************************************)
\* How many calculations the history of a session may hold.
MaxHistory == 2

\* The lines typed at the prompt.
Lines ==
    {"", "   ", "help", " HELP ", "history", "History ", "exit", " Exit",
     "add 1 -2", "multiply 0 -2.0", "DIVIDE 1 -2", "  power  -2  -2 ",
     "divide 1 0", "power 0 -2", "modulo 1 1", "help 1 0",
     "add 1", "add 1 -2 0", "add x 1", "divide 1 zero"}

help_message ==
    "\nCalculator REPL Help\n--------------------\nUsage:\n"
    \o "    <operation> <number1> <number2>\n"
    \o "    - Perform a calculation with the specified operation and two numbers.\n"
    \o "    - Supported operations:\n"
    \o "        add       : Adds two numbers.\n"
    \o "        subtract  : Subtracts the second number from the first.\n"
    \o "        multiply  : Multiplies two numbers.\n"
    \o "        divide    : Divides the first number by the second.\n"
    \o "\nSpecial Commands:\n"
    \o "    help      : Display this help message.\n"
    \o "    history   : Show the history of calculations.\n"
    \o "    exit      : Exit the calculator.\n"
    \o "\nExamples:\n    add 10 5\n    subtract 15.5 3.2\n    multiply 7 8\n    divide 20 4\n    "

\* display_help(): what it prints
display_help == <<help_message>>

\* The line display_history prints for the idx-th entry
history_line(idx, text) == NatStr(idx) \o ". " \o text

\* The for loop of display_history, shown[idx] being the outcome of the str()
\* of the idx-th entry: the lines printed, and the exception of the first str()
\* that raises, which ends the loop.
history_loop(shown) ==
    LET raising == {idx \in DOMAIN shown : shown[idx].exc # "None"}
        stop == IF raising = {} THEN Len(shown) + 1
                ELSE CHOOSE idx \in raising : \A other \in raising : idx <= other
    IN  [exc |-> IF raising = {} THEN "None" ELSE shown[stop].exc,
         msg |-> IF raising = {} THEN "" ELSE shown[stop].msg,
         out |-> <<"Calculation History:">>
                 \o [idx \in 1..(stop - 1) |-> history_line(idx, shown[idx].text)]]

\* display_history(history)
display_history(hist) ==
    IF hist = <<>>
    THEN [exc |-> "None", msg |-> "", out |-> <<"No calculations performed yet.">>]
    ELSE history_loop([idx \in 1..Len(hist) |-> Calculation_str(hist[idx])])

\* user_input = input(">> ").strip(); command = user_input.lower()
read_input(line) ==
    LET user_input == Strip(line)
    IN  [user_input |-> user_input, command |-> Lower(user_input)]

\* operation, num1_str, num2_str = user_input.split(); num1 = float(num1_str);
\* num2 = float(num2_str): the unpacking raises ValueError unless there are
\* three tokens, and the first conversion that fails ends the block
parse_input(user_input) ==
    LET tokens == Split(user_input)
    IN  IF Len(tokens) # 3
        THEN [exc |-> "ValueError", steps |-> <<"split">>, operation |-> "", nums |-> <<>>]
        ELSE LET num1 == ParseFloat(tokens[2])
                 num2 == ParseFloat(tokens[3])
             IN  IF num1.exc # "None"
                 THEN [exc |-> num1.exc, steps |-> <<"split", "float">>,
                       operation |-> "", nums |-> <<>>]
                 ELSE IF num2.exc # "None"
                      THEN [exc |-> num2.exc, steps |-> <<"split", "float", "float">>,
                            operation |-> "", nums |-> <<>>]
                      ELSE [exc |-> "None", steps |-> <<"split", "float", "float">>,
                            operation |-> tokens[1], nums |-> <<num1.val[1], num2.val[1]>>]

\* Reading and parsing of each line of Lines, computed once.
ReadTable == [l \in Lines |-> read_input(l)]
ParseTable == [l \in Lines |-> parse_input(ReadTable[l].user_input)]
Read(line) == IF line \in Lines THEN ReadTable[line] ELSE read_input(line)
Parse(line) == IF line \in Lines THEN ParseTable[line] ELSE parse_input(read_input(line).user_input)

\* What an iteration of the loop leaves: the history, the variable calculation,
\* where the program is, and the record of the iteration.
Iteration(hist, cur, at, line, steps, out, path) ==
    [history |-> hist, calc |-> cur, pc |-> at, io |-> Io(line, steps, out, path)]

\* What the handler of exc among the two handlers of the loop prints
handler_message(exc) ==
    IF exc = "KeyboardInterrupt"
    THEN "\nKeyboard interrupt detected. Exiting calculator. Goodbye!"
    ELSE "\nEOF detected. Exiting calculator. Goodbye!"

\* A handler of the loop cut by a keyboard interrupt, before its print
\* (printed = 0) or between its print and sys.exit(0) (printed = 1): the
\* KeyboardInterrupt is raised outside the try and ends the program with a
\* traceback.
handler_interrupted(exc, printed, hist, cur, line, steps, out) ==
    Iteration(hist, cur, "crashed", line, steps,
              IF printed = 1 THEN out \o <<handler_message(exc)>> ELSE out,
              "KeyboardInterrupt")

\* An exception raised inside the try of the loop: KeyboardInterrupt and
\* EOFError are handled by printing and sys.exit(0); SystemExit has no handler
\* and ends the program without a traceback; any other ends the program with
\* a traceback.
outer_except(exc, hist, cur, line, steps, out) ==
    IF exc = "KeyboardInterrupt"
    THEN Iteration(hist, cur, "exited", line, steps \o <<"sys.exit">>,
                   out \o <<"\nKeyboard interrupt detected. Exiting calculator. Goodbye!">>,
                   "interrupt")
    ELSE IF exc = "EOFError"
         THEN Iteration(hist, cur, "exited", line, steps \o <<"sys.exit">>,
                        out \o <<"\nEOF detected. Exiting calculator. Goodbye!">>, "eof")
         ELSE IF exc = "SystemExit"
              THEN Iteration(hist, cur, "exited", line, steps, out, exc)
              ELSE Iteration(hist, cur, "crashed", line, steps, out, exc)

\* ValueError and its subclasses among the built-in exceptions: except
\* ValueError catches them all.
ValueErrors ==
    {"ValueError", "UnicodeError", "UnicodeDecodeError", "UnicodeEncodeError",
     "UnicodeTranslateError"}

\* The exceptions that are not subclasses of Exception: except Exception does
\* not catch them.
NotExceptions ==
    {"BaseException", "BaseExceptionGroup", "GeneratorExit", "KeyboardInterrupt", "SystemExit"}

\* What the calls of the iteration leave to be seen of the variable
\* calculation: the key it was created under, the outcome of its first
\* execute(), and the last call made.
Seen(k, f, l) == [kind |-> k, first |-> f, last |-> l]

\* An iteration with the log of what was to be seen: at its start, and after
\* each call of create_calculation, execute() and str() that came to its end.
Logged(r, log) ==
    [history |-> r.history, calc |-> r.calc, pc |-> r.pc, io |-> r.io, log |-> log]

\* After CalculationFactory.create_calculation(name, a, b) gave made
create_seen(seen, name, a, b, made) ==
    IF made.exc = "None"
    THEN Seen(lower(name), <<>>, Call("create", name, <<a, b>>, made.exc, made.msg, <<>>, "", <<>>))
    ELSE Seen(seen.kind, seen.first,
              Call("create", name, <<a, b>>, made.exc, made.msg, <<>>, "", <<>>))

\* After calculation.execute() gave ran
execute_seen(seen, ran) ==
    Seen(seen.kind,
         IF seen.first = <<>>
         THEN <<[exc |-> ran.exc, msg |-> ran.msg, val |-> ran.val]>> ELSE seen.first,
         Call("execute", "", <<>>, ran.exc, ran.msg, ran.val, "", ran.calls))

\* After str(calculation) gave shown
str_seen(seen, shown) ==
    Seen(seen.kind,
         IF seen.first = <<>>
         THEN <<[exc |-> shown.exc, msg |-> shown.msg, val |-> shown.val]>> ELSE seen.first,
         Call("str", "", <<>>, shown.exc, shown.msg, shown.val, shown.text, shown.calls))

\* A variant of the special-command test made on the line as typed, not on
\* its lower-cased form.
special_command_case_sensitive(user_input, command) ==
    IF user_input \in {"help", "history", "exit"} THEN user_input ELSE ""

\* The special command a stripped line is, "" if it is none: the comparison
\* is made on the lower-cased line.
special_command(user_input, command) ==
    IF command \in {"help", "history", "exit"} THEN command ELSE ""

\* except ValueError of the parsing block: two lines are printed, continue
invalid_input(hist, cur, line, steps) ==
    Iteration(hist, cur, "prompt", line, steps,
              <<"Invalid input. Please follow the format: <operation> <num1> <num2>",
                "Type 'help' for more information.\n">>,
              "invalid")

\* A variant of the create_calculation block without its except branch: the
\* ValueError leaves the loop.
unsupported_operation_reraising(ve, hist, cur, line, steps) ==
    outer_except("ValueError", hist, cur, line, steps, <<>>)

\* except ValueError as ve of the create_calculation block: print(ve), continue
unsupported_operation(ve, hist, cur, line, steps) ==
    Iteration(hist, cur, "prompt", line, steps,
              <<ve, "Type 'help' to see the list of supported operations.\n">>,
              "unsupported")

\* A variant of the ZeroDivisionError branch that also appends the failed
\* calculation to the history.
zero_division_recording(calculation, hist, line, steps) ==
    Iteration(Append(hist, calculation), <<calculation>>, "prompt", line, steps,
              <<"Cannot divide by zero!", "Please enter a non-zero divisor.\n">>,
              "zero_division")

\* except ZeroDivisionError of the execute block: continue
zero_division(calculation, hist, line, steps) ==
    Iteration(hist, <<calculation>>, "prompt", line, steps,
              <<"Cannot divide by zero!", "Please enter a non-zero divisor.\n">>,
              "zero_division")

\* except Exception as e of the execute block: continue
other_error(e, calculation, hist, line, steps) ==
    Iteration(hist, <<calculation>>, "prompt", line, steps,
              <<"An error occurred during calculation: " \o e, "Please try again.\n">>,
              "error")

\* A variant of the code after the third try block that inserts the
\* calculation at the front of the history.
after_str_prepending(shown, hist, line, steps) ==
    IF shown.exc # "None"
    THEN outer_except(shown.exc, hist, <<shown.self>>, line, steps \o <<"str">>, <<>>)
    ELSE Iteration(<<shown.self>> \o hist, <<shown.self>>, "prompt", line,
                   steps \o <<"str", "append">>,
                   <<"Result: " \o shown.text \o "\n">>, "ok")

\* After result_str = f"{calculation}" has run: the exception leaves the inner
\* handlers behind, or the result is printed and the calculation appended.
after_str(shown, hist, line, steps) ==
    IF shown.exc # "None"
    THEN outer_except(shown.exc, hist, <<shown.self>>, line, steps \o <<"str">>, <<>>)
    ELSE Iteration(Append(hist, shown.self), <<shown.self>>, "prompt", line,
                   steps \o <<"str", "append">>,
                   <<"Result: " \o shown.text \o "\n">>, "ok")

\* The code after the third try block: result_str = f"{calculation}", the
\* print, and history.append(calculation).  The formatting runs execute()
\* again, outside the inner handlers.
record_result(calculation, hist, line, steps, log) ==
    Logged(after_str(Calculation_str(calculation), hist, line, steps),
           Append(log, str_seen(log[Len(log)], Calculation_str(calculation))))

\* The third try block, after calculation.execute() has run: its except
\* branches, or the code after the block.  An exception that neither branch
\* catches reaches the handlers of the loop.
after_execute(ran, hist, line, steps, log) ==
    IF ran.exc = "ZeroDivisionError"
    THEN Logged(zero_division(ran.self, hist, line, steps),
                Append(log, execute_seen(log[Len(log)], ran)))
    ELSE IF ran.exc \in NotExceptions
         THEN Logged(outer_except(ran.exc, hist, <<ran.self>>, line, steps, <<>>),
                     Append(log, execute_seen(log[Len(log)], ran)))
         ELSE IF ran.exc # "None"
              THEN Logged(other_error(ran.msg, ran.self, hist, line, steps),
                          Append(log, execute_seen(log[Len(log)], ran)))
              ELSE record_result(ran.self, hist, line, steps,
                                 Append(log, execute_seen(log[Len(log)], ran)))

\* The second try block, after CalculationFactory.create_calculation has run:
\* its except branch, or the third try block.  An exception that is no
\* ValueError reaches the handlers of the loop.
after_create(made, parsed, hist, cur, line, steps, log) ==
    IF made.exc \in ValueErrors
    THEN Logged(unsupported_operation(made.msg, hist, cur, line, steps),
                Append(log, create_seen(log[Len(log)], parsed.operation,
                                        parsed.nums[1], parsed.nums[2], made)))
    ELSE IF made.exc # "None"
         THEN Logged(outer_except(made.exc, hist, cur, line, steps, <<>>),
                     Append(log, create_seen(log[Len(log)], parsed.operation,
                                             parsed.nums[1], parsed.nums[2], made)))
         ELSE after_execute(execute(made.obj[1]), hist, line, steps \o <<"execute">>,
                            Append(log, create_seen(log[Len(log)], parsed.operation,
                                                    parsed.nums[1], parsed.nums[2], made)))

\* The first try block, after the split and the conversions have run: its
\* except branch, or the second try block.  An exception that is no
\* ValueError reaches the handlers of the loop.
after_parse(parsed, hist, reg, cur, line, steps, log) ==
    IF parsed.exc \in ValueErrors
    THEN Logged(invalid_input(hist, cur, line, steps \o parsed.steps), log)
    ELSE IF parsed.exc # "None"
         THEN Logged(outer_except(parsed.exc, hist, cur, line, steps \o parsed.steps, <<>>),
                     log)
         ELSE after_create(create_calculation(reg, parsed.operation,
                                              parsed.nums[1], parsed.nums[2]),
                           parsed, hist, cur, line,
                           steps \o parsed.steps \o <<"create_calculation">>, log)

\* The three try blocks of an iteration: parse, create, execute.
evaluate(line, hist, reg, cur, steps, log) ==
    after_parse(Parse(line), hist, reg, cur, line, steps, log)

\* The history command, after display_history(history) has run
after_history(shown, hist, cur, line, steps) ==
    IF shown.exc # "None"
    THEN outer_except(shown.exc, hist, cur, line, steps, shown.out)
    ELSE Iteration(hist, cur, "prompt", line, steps, shown.out, "history")

\* The body of the loop after the line was stripped and lower-cased: the
\* empty line, the special commands, or the three try blocks.
dispatch(user_input, special, line, hist, reg, cur, log) ==
    IF user_input = ""
    THEN Logged(Iteration(hist, cur, "prompt", line, <<"strip">>, <<>>, "empty"), log)
    ELSE IF special = "help"
         THEN Logged(Iteration(hist, cur, "prompt", line,
                               <<"strip", "lower", "display_help">>, display_help, "help"),
                     log)
         ELSE IF special = "history"
              THEN Logged(after_history(display_history(hist), hist, cur, line,
                                        <<"strip", "lower", "display_history">>), log)
              ELSE IF special = "exit"
                   THEN Logged(Iteration(hist, cur, "exited", line,
                                         <<"strip", "lower", "sys.exit">>,
                                         <<"Exiting calculator. Goodbye!\n">>, "exit"), log)
                   ELSE evaluate(line, hist, reg, cur, <<"strip", "lower">>, log)

\* One iteration of the while loop on the line input() returned, seen being
\* what was to be seen of the variable calculation before it.
calculator_step(line, hist, reg, cur, seen) ==
    dispatch(Read(line).user_input,
             special_command(Read(line).user_input, Read(line).command),
             line, hist, reg, cur, <<seen>>)

\* The points of an iteration r at which a keyboard interrupt can arrive:
\* <<k, m, e>> when k of its steps were entered, the k-th had ended (e = 1) or
\* not (e = 0), and m of its lines were printed.  The lines are printed once
\* the steps have ended, except that sys.exit(0) of the exit command and
\* history.append come after the print; an interrupt with either of these two
\* entered is not among the points.
InterruptPoints(r) ==
    LET entered == IF r.io.path \in {"exit", "ok"}
                   THEN Len(r.io.steps) - 1 ELSE Len(r.io.steps)
    IN  {<<k, 0, 0>> : k \in 1..entered} \cup {<<entered, m, 1>> : m \in 0..Len(r.io.out)}

\* The step named s of the iteration r came to its end before the point.
Ended(r, point, s) ==
    \E i \in 1..point[1] : r.io.steps[i] = s /\ (i < point[1] \/ point[3] = 1)

\* How many of the calls that are logged ended before the point
EndedCalls(r, point) ==
    Cardinality({s \in {"create_calculation", "execute", "str"} : Ended(r, point, s)})

\* The variable calculation at the point of the iteration r that began with it
\* as cur: assigned once create_calculation has returned.
calculation_at(r, point, cur) ==
    IF Ended(r, point, "create_calculation") /\ r.log[2].last.exc = "None"
    THEN r.calc ELSE cur

\* The iteration r, which began with the history hist and the variable
\* calculation as cur, cut at the point by KeyboardInterrupt: the steps
\* entered, the lines printed, the variable calculation if it was assigned,
\* and the handler of the loop.
interrupted(r, point, hist, cur) ==
    Logged(outer_except("KeyboardInterrupt", hist, calculation_at(r, point, cur),
                        r.io.line, SubSeq(r.io.steps, 1, point[1]),
                        SubSeq(r.io.out, 1, point[2])),
           SubSeq(r.log, 1, 1 + EndedCalls(r, point)))

\* The same, with a second keyboard interrupt cutting the handler of the loop.
interrupted_twice(r, point, printed, hist, cur) ==
    Logged(handler_interrupted("KeyboardInterrupt", printed, hist,
                               calculation_at(r, point, cur),
                               r.io.line, SubSeq(r.io.steps, 1, point[1]),
                               SubSeq(r.io.out, 1, point[2])),
           SubSeq(r.log, 1, 1 + EndedCalls(r, point)))

\* The two lines calculator() prints before its loop
welcome ==
    <<"Welcome to the professional calculator REPL!",
      "Type 'help' for instructions, 'history' for history of calculations, or 'exit' to quit. \n">>

\* calculator() has been called and has come to its loop: the history is empty
\* and the welcome is printed; or a keyboard interrupt arrived before the
\* loop, where no handler is in force, with none, one or both lines of the
\* welcome printed, and ended the program with a traceback.
InitRepl ==
    /\ calculations = Import(BuiltinDecorators, Len(BuiltinDecorators))
    /\ calc = <<>>
    /\ kind = ""
    /\ first = <<>>
    /\ last = Call("import", "", <<>>, "None", "", <<>>, "", <<>>)
    /\ history = <<>>
    /\ \/ /\ pc = "prompt"
          /\ io = Io("", <<>>, welcome, "start")
       \/ \E printed \in 0..Len(welcome) :
              /\ pc = "crashed"
              /\ io = Io("", <<>>, SubSeq(welcome, 1, printed), "KeyboardInterrupt")

\* What is to be seen of the variable calculation in the current state
seen_now == Seen(kind, first, last)

\* input() returns a line and the iteration runs on it.
ReadLine(line) ==
    /\ pc = "prompt"
    /\ \E r \in {calculator_step(line, history, calculations, calc, seen_now)} :
           /\ Len(r.history) <= MaxHistory
           /\ history' = r.history
           /\ calc' = r.calc
           /\ pc' = r.pc
           /\ io' = r.io
           /\ kind' = r.log[Len(r.log)].kind
           /\ first' = r.log[Len(r.log)].first
           /\ last' = r.log[Len(r.log)].last
    /\ UNCHANGED calculations

\* input() raises EOFError (Ctrl+D, or the input has ended).
EndOfInput ==
    /\ pc = "prompt"
    /\ \E r \in {outer_except("EOFError", history, calc, "", <<>>, <<>>)} :
           /\ history' = r.history
           /\ calc' = r.calc
           /\ pc' = r.pc
           /\ io' = r.io
    /\ UNCHANGED <<calculations, kind, first, last>>

\* Ctrl+C: input() raises KeyboardInterrupt at the prompt, or the interrupt
\* arrives at a point of the iteration on the line that input() returned, or
\* it arrives in a handler of the loop: the handler of EOFError, or that of a
\* first interrupt.
KeyboardInterrupt ==
    /\ pc = "prompt"
    /\ \/ \E r \in {outer_except("KeyboardInterrupt", history, calc, "", <<>>, <<>>)} :
              /\ history' = r.history
              /\ calc' = r.calc
              /\ pc' = r.pc
              /\ io' = r.io
              /\ UNCHANGED <<kind, first, last>>
       \/ \E exc \in {"KeyboardInterrupt", "EOFError"}, printed \in {0, 1} :
              \E r \in {handler_interrupted(exc, printed, history, calc, "", <<>>, <<>>)} :
                  /\ history' = r.history
                  /\ calc' = r.calc
                  /\ pc' = r.pc
                  /\ io' = r.io
                  /\ UNCHANGED <<kind, first, last>>
       \/ \E line \in Lines :
              \E whole \in {calculator_step(line, history, calculations, calc, seen_now)} :
                  \E point \in InterruptPoints(whole) :
                      \E r \in {interrupted(whole, point, history, calc)}
                               \cup {interrupted_twice(whole, point, printed, history, calc) :
                                       printed \in {0, 1}} :
                          /\ history' = r.history
                          /\ calc' = r.calc
                          /\ pc' = r.pc
                          /\ io' = r.io
                          /\ kind' = r.log[Len(r.log)].kind
                          /\ first' = r.log[Len(r.log)].first
                          /\ last' = r.log[Len(r.log)].last
    /\ UNCHANGED calculations

NextRepl ==
    \/ \E line \in Lines : ReadLine(line)
    \/ EndOfInput
    \/ KeyboardInterrupt

SpecRepl == InitRepl /\ [][NextRepl]_vars

(***************************************************************************)
(* Vocabulary of the properties.                                           *)
(***************************************************************************)
\* The names registered at import.
BuiltinKinds == {"add", "subtract", "multiply", "divide", "power"}

\* The dict as the import leaves it.
BuiltinRegistry ==
    << [key |-> "add", cls |-> "AddCalculation"],
       [key |-> "subtract", cls |-> "SubtractCalculation"],
       [key |-> "multiply", cls |-> "MultiplyCalculation"],
       [key |-> "divide", cls |-> "DivideCalculation"],
       [key |-> "power", cls |-> "PowerCalculation"] >>

\* The direct Operation call of a built-in kind.
Library(k, a, b) ==
    CASE k = "add" -> addition(a, b)
      [] k = "subtract" -> subtraction(a, b)
      [] k = "multiply" -> multiplication(a, b)
      [] k = "divide" -> division(a, b)
      [] k = "power" -> power(a, b)

\* The display label of a class.
DisplayLabel(cls) ==
    CASE cls = "AddCalculation" -> "Add"
      [] cls = "SubtractCalculation" -> "Subtract"
      [] cls = "MultiplyCalculation" -> "Multiply"
      [] cls = "DivideCalculation" -> "Divide"
      [] cls = "PowerCalculation" -> "Power"

RECURSIVE Listed(_, _)
\* The first n keys of a dict, written one after the other, ", " between them.
Listed(reg, n) ==
    IF n = 0 THEN ""
    ELSE IF n = 1 THEN reg[1].key
         ELSE Listed(reg, n - 1) \o ", " \o reg[n].key

\* No upper-case letter occurs in s.
IsLowerCase(s) == \A i \in 1..Len(s) : Char(s, i) \notin UpperChars

\* The outcome the last call observed: the exception and the value.
Observed(c) == [exc |-> c.exc, msg |-> c.msg, val |-> c.val]

(***************************************************************************)
(* C1                                                                      *)
(***************************************************************************)
\* C1 (as claimed): for every built-in kind and operand pair, execute() of the
\* Calculation created under that kind has the same outcome (the same value, or
\* the same error) as the direct Operation call of that kind.
C1_SameOutcomeAsLibrary ==
    (last.op = "execute" /\ kind \in BuiltinKinds) =>
        LET direct == Library(kind, calc[1].a, calc[1].b)
        IN  last.exc = direct.exc /\ last.val = direct.val

\* C1 (amended): the outcomes agree except for divide with b = 0, where both
\* fail but execute() raises ZeroDivisionError and Operation.division raises
\* ValueError.
C1_SameOutcomeExceptDivideByZero ==
    (last.op = "execute" /\ kind \in BuiltinKinds) =>
        LET direct == Library(kind, calc[1].a, calc[1].b)
        IN  IF kind = "divide" /\ IsZero(calc[1].b)
            THEN last.exc = "ZeroDivisionError" /\ direct.exc = "ValueError"
            ELSE last.exc = direct.exc /\ last.val = direct.val

\* execute() of divide 1.0, -2.0 has returned -0.5
C1_Witness ==
    /\ last.op = "execute"
    /\ kind = "divide"
    /\ calc = <<Calculation("DivideCalculation", FromInt(1), FromInt(-2))>>
    /\ last.val = <<Flt(-1, 1, 2)>>

(***************************************************************************)
(* C2                                                                      *)
(***************************************************************************)
\* C2: create_calculation with a name whose lower-cased form is not registered
\* raises ValueError, builds no Calculation, leaves the dict unchanged, and its
\* message lists the registered names in insertion order; with only the
\* built-ins that list is add, subtract, multiply, divide, power.
C2_UnsupportedCreate ==
    [][ (last'.op = "create" /\ ~Has(calculations, Lower(last'.name))) =>
            /\ last'.exc = "ValueError"
            /\ calc' = calc
            /\ calculations' = calculations
            /\ last'.msg = "Unsupported calculation type: '" \o last'.name
                           \o "'. Available types: "
                           \o Listed(calculations, Len(calculations))
            /\ Len(calculations) = 5 =>
                   last'.msg = "Unsupported calculation type: '" \o last'.name
                               \o "'. Available types: add, subtract, multiply, divide, power"
      ]_vars

\* create_calculation("modulo", ...) has failed with only the built-ins registered
C2_Witness ==
    /\ last.op = "create"
    /\ last.name = "modulo"
    /\ last.exc = "ValueError"
    /\ calculations = BuiltinRegistry

(***************************************************************************)
(* C3                                                                      *)
(***************************************************************************)
\* C3: registering a name whose lower-cased form is already in the dict raises
\* ValueError and leaves the dict unchanged: the name still maps to the class of
\* its first registration, and create_calculation for it still builds that class.
C3_DuplicateRegister ==
    [][ (last'.op = "register" /\ Has(calculations, Lower(last'.name))) =>
            /\ last'.exc = "ValueError"
            /\ calculations' = calculations
            /\ Get(calculations', Lower(last'.name)) = Get(calculations, Lower(last'.name))
            /\ \A a \in Operands, b \in Operands :
                   create_calculation(calculations', last'.name, a, b)
                       = [exc |-> "None", msg |-> "",
                          obj |-> <<Calculation(Get(calculations, Lower(last'.name))[1], a, b)>>]
      ]_vars

\* registering "Add" was refused, and "add" is still the AddCalculation
C3_Witness ==
    /\ last.op = "register"
    /\ last.name = "Add"
    /\ last.exc = "ValueError"
    /\ Get(calculations, "add") = <<"AddCalculation">>

(***************************************************************************)
(* C4                                                                      *)
(***************************************************************************)
\* C4: names are case-insensitive in register and in create: creating under any
\* case variant of a registered name gives the Calculation that creating under
\* the lower-cased name gives, registering a case variant of a registered name is
\* refused as a duplicate, and every key of the dict is lower-case.
C4_CaseInsensitive ==
    [][ /\ \A i \in 1..Len(calculations) : IsLowerCase(calculations[i].key)
        /\ \A i \in 1..Len(calculations') : IsLowerCase(calculations'[i].key)
        /\ (last'.op = "create" /\ Has(calculations, Lower(last'.name))) =>
               LET canonical == create_calculation(calculations, Lower(last'.name),
                                                   last'.args[1], last'.args[2])
               IN  /\ last'.exc = "None"
                   /\ canonical.exc = "None"
                   /\ calc' = canonical.obj
                   /\ calc'[1].a = last'.args[1]
                   /\ calc'[1].b = last'.args[2]
        /\ (last'.op = "register" /\ Has(calculations, Lower(last'.name))) =>
               /\ last'.exc = "ValueError"
               /\ calculations' = calculations
      ]_vars

\* create_calculation("DIVIDE", ...) has built a DivideCalculation
C4_Witness ==
    /\ last.op = "create"
    /\ last.name = "DIVIDE"
    /\ last.exc = "None"
    /\ calc # <<>>
    /\ calc[1].cls = "DivideCalculation"

(***************************************************************************)
(* C5                                                                      *)
(***************************************************************************)
\* C5 (as claimed): for every a, create_calculation("divide", a, 0) fails with
\* the division-by-zero error.
C5_CreateDivideByZeroFails ==
    (last.op = "create" /\ Lower(last.name) = "divide" /\ IsZero(last.args[2])) =>
        last.exc \in {"ZeroDivisionError", "ValueError"}

\* C5 (amended): for every a, create_calculation("divide", a, 0) succeeds and
\* returns a DivideCalculation holding a and 0, and execute() of that
\* Calculation raises ZeroDivisionError.
C5_ExecuteDivideByZeroFails ==
    /\ (last.op = "create" /\ Lower(last.name) = "divide" /\ IsZero(last.args[2])) =>
           /\ last.exc = "None"
           /\ calc = <<Calculation("DivideCalculation", last.args[1], last.args[2])>>
    /\ (last.op = "execute" /\ kind = "divide" /\ IsZero(calc[1].b)) =>
           /\ last.exc = "ZeroDivisionError"
           /\ last.val = <<>>

\* execute() of divide 1.0, 0.0 has raised
C5_Witness ==
    /\ last.op = "execute"
    /\ kind = "divide"
    /\ calc = <<Calculation("DivideCalculation", FromInt(1), FromInt(0))>>
    /\ last.exc = "ZeroDivisionError"

(***************************************************************************)
(* C6                                                                      *)
(***************************************************************************)
\* C6: execute() of a DivideCalculation with b == 0 raises the wrapper's
\* ZeroDivisionError before Operation.division is called, so no call through a
\* Calculation reaches the library's zero-division path; the library's error
\* for the same operands is a ValueError, another error; and both guards are
\* exact: with b # 0 the library is called and returns.
C6_GuardBeforeLibrary ==
    /\ (last.op \in {"execute", "str"} /\ calc[1].cls = "DivideCalculation") =>
           IF calc[1].b.n = 0
           THEN /\ last.exc = "ZeroDivisionError"
                /\ last.msg = "Cannot divide by zero."
                /\ last.calls = <<>>
                /\ division(calc[1].a, calc[1].b).exc = "ValueError"
                /\ division(calc[1].a, calc[1].b).msg # last.msg
           ELSE /\ last.exc = "None"
                /\ last.calls = << <<"division", calc[1].a, calc[1].b>> >>
                /\ division(calc[1].a, calc[1].b).exc = "None"
    /\ \A i \in 1..Len(last.calls) :
           last.calls[i][1] = "division" => last.calls[i][3].n # 0

\* str() of a DivideCalculation with b == 0 has raised without a library call
C6_Witness ==
    /\ last.op = "str"
    /\ calc # <<>>
    /\ calc[1].cls = "DivideCalculation"
    /\ calc[1].b.n = 0
    /\ last.exc = "ZeroDivisionError"
    /\ last.calls = <<>>

(***************************************************************************)
(* C7                                                                      *)
(***************************************************************************)
\* C7 (as claimed): when execute() succeeds the display string is
\* "<Label>: <a> <Label> <b> = <result>", the display label (e.g. "Add") in both
\* places and <result> the value of execute(); when execute() fails, the
\* formatting fails with that error.
C7_DisplaySameLabelTwice ==
    last.op = "str" =>
        LET self == calc[1]
            ran == execute(self)
            label == DisplayLabel(self.cls)
        IN  IF ran.exc = "None"
            THEN /\ last.exc = "None"
                 /\ last.text = label \o ": " \o FloatStr(self.a) \o " " \o label \o " "
                                \o FloatStr(self.b) \o " = " \o FloatStr(ran.val[1])
            ELSE last.exc = ran.exc /\ last.msg = ran.msg /\ last.text = ""

\* C7 (amended): when execute() succeeds the display string is
\* "<Label>Calculation: <a> <Label> <b> = <result>": the class name in the first
\* place, the display label in the second, <result> the value of execute(); when
\* execute() fails, the formatting fails with that error.
C7_DisplayClassNameThenLabel ==
    last.op = "str" =>
        LET self == calc[1]
            ran == execute(self)
            label == DisplayLabel(self.cls)
        IN  IF ran.exc = "None"
            THEN /\ last.exc = "None"
                 /\ last.text = label \o "Calculation: " \o FloatStr(self.a) \o " " \o label
                                \o " " \o FloatStr(self.b) \o " = " \o FloatStr(ran.val[1])
            ELSE last.exc = ran.exc /\ last.msg = ran.msg /\ last.text = ""

\* str() of divide 1.0, -2.0 has returned its display string
C7_Witness ==
    /\ last.op = "str"
    /\ last.text = "DivideCalculation: 1.0 Divide -2.0 = -0.5"

(***************************************************************************)
(* C8                                                                      *)
(***************************************************************************)
\* C8 (as claimed): the debug string is "<Label>(a=<a>, b=<b>)" with the display
\* label, made without running execute(), and never fails.
C8_DebugWithLabel ==
    last.op = "repr" =>
        /\ last.exc = "None"
        /\ last.calls = <<>>
        /\ last.text = DisplayLabel(calc[1].cls) \o "(a=" \o FloatStr(calc[1].a)
                       \o ", b=" \o FloatStr(calc[1].b) \o ")"

\* C8 (amended): the debug string is "<Label>Calculation(a=<a>, b=<b>)" with the
\* class name, made without running execute(), and never fails, also for a
\* DivideCalculation with b == 0.
C8_DebugWithClassName ==
    last.op = "repr" =>
        /\ last.exc = "None"
        /\ last.calls = <<>>
        /\ last.val = <<>>
        /\ last.text = DisplayLabel(calc[1].cls) \o "Calculation(a=" \o FloatStr(calc[1].a)
                       \o ", b=" \o FloatStr(calc[1].b) \o ")"

\* repr() of divide 1.0, 0.0 has returned
C8_Witness ==
    /\ last.op = "repr"
    /\ last.text = "DivideCalculation(a=1.0, b=0.0)"
    /\ execute(calc[1]).exc = "ZeroDivisionError"

(***************************************************************************)
(* C9                                                                      *)
(***************************************************************************)
\* C9: execute(), str() and repr() leave the operands of the Calculation and the
\* dict unchanged, and every execute() of an instance (also the one str() runs)
\* gives what its first execute() gave: the same value or the same error.
C9_Idempotent ==
    [][ last'.op \in {"execute", "str", "repr"} =>
            /\ calc' = calc
            /\ calculations' = calculations
            /\ last'.op # "repr" =>
                   /\ first' # <<>>
                   /\ first'[1] = Observed(last')
                   /\ first # <<>> => first' = first
      ]_vars

\* repr() after an execute() that failed, on a power Calculation
C9_Witness ==
    /\ last.op = "repr"
    /\ kind = "power"
    /\ first # <<>>
    /\ first[1].exc = "ZeroDivisionError"

(***************************************************************************)
(* C10                                                                     *)
(***************************************************************************)
\* C10: the dict is append-only: it starts with the five built-ins, no step
\* removes an entry or changes the class of a key, create_calculation never
\* changes it, and it is never empty.
C10_AppendOnly ==
    [][ /\ Len(calculations) >= 5
        /\ SubSeq(calculations, 1, 5) = BuiltinRegistry
        /\ Len(calculations') >= Len(calculations)
        /\ SubSeq(calculations', 1, Len(calculations)) = calculations
        /\ last'.op = "create" => calculations' = calculations
      ]_vars

\* a create_calculation after a sixth name was registered
C10_Witness ==
    /\ Len(calculations) = 6
    /\ last.op = "create"
    /\ last.exc = "None"
    /\ kind \notin BuiltinKinds

(***************************************************************************)
(* Vocabulary of the properties of calculator().  A line is classified by  *)
(* what it says, not by the branch the loop took on it.                    *)
(***************************************************************************)
\* The last step ran the iteration on a line that input() returned to its
\* end: no keyboard interrupt cut it.
LineRead == io.path \notin {"start", "eof", "interrupt", "KeyboardInterrupt"}

\* The last step was ended by a keyboard interrupt: its handler ended the
\* session, or a second interrupt cut the handler.
Interrupted ==
    \/ pc = "exited" /\ io.path = "interrupt"
    \/ pc = "crashed" /\ io.path = "KeyboardInterrupt"

\* The line is empty once trimmed.
IsBlank(line) == Read(line).user_input = ""

\* The trimmed line is help, history or exit in some mix of cases.
IsSpecial(line) == Read(line).command \in {"help", "history", "exit"}

\* The line is not a special command and is not an operation and two numbers.
Malformed(line) == ~IsBlank(line) /\ ~IsSpecial(line) /\ Parse(line).exc # "None"

\* The line is an operation and two numbers.
WellFormed(line) == ~IsBlank(line) /\ ~IsSpecial(line) /\ Parse(line).exc = "None"

\* The kind a well-formed line names
KindOf(line) == Lower(Parse(line).operation)

\* The line names no built-in kind.
Unsupported(line) == WellFormed(line) /\ KindOf(line) \notin BuiltinKinds

\* The line asks for a built-in calculation.
Supported(line) == WellFormed(line) /\ KindOf(line) \in BuiltinKinds

\* The line asks for a calculation whose arithmetic fails: a division by zero.
DividesByZero(line) ==
    /\ Supported(line)
    /\ Library(KindOf(line), Parse(line).nums[1], Parse(line).nums[2]).exc # "None"

\* Parsing, creation and execution of the line all succeed.
Succeeds(line) ==
    /\ Supported(line)
    /\ Library(KindOf(line), Parse(line).nums[1], Parse(line).nums[2]).exc = "None"

\* The Calculation a supported line asks for
Requested(line) ==
    Calculation(Get(BuiltinRegistry, KindOf(line))[1], Parse(line).nums[1],
                Parse(line).nums[2])

\* x is one of the elements of the sequence s.
Among(x, s) == \E i \in 1..Len(s) : s[i] = x

(***************************************************************************)
(* C11                                                                     *)
(***************************************************************************)
\* C11 (as claimed): in calculator(), a step on a line whose parsing, creation
\* and execute() all succeeded (the step went on to the formatting of the
\* result) appends the Calculation the line asks for at the end of history,
\* and every other step leaves history as it was.
C11_GrowsWheneverExecuteSucceeded ==
    [][ IF Succeeds(io'.line) /\ Among("str", io'.steps)
        THEN history' = Append(history, Requested(io'.line))
        ELSE history' = history ]_vars

\* C11 (amended): in calculator(), a step on a line whose parsing, creation
\* and execute() all succeed, and whose iteration no keyboard interrupt cuts,
\* appends the Calculation the line asks for at the end of history, and every
\* other step (an empty line, help, history, exit, a malformed line, an
\* unsupported operation, a division by zero, end of input, an interrupt at
\* the prompt or in the iteration) leaves history as it was.
C11_HistoryGrowsBySuccessfulLines ==
    [][ IF LineRead' /\ Succeeds(io'.line)
        THEN history' = Append(history, Requested(io'.line))
        ELSE history' = history ]_vars

\* Two different calculations are in history, in the order typed, and a
\* division by zero typed after them has left them there.
C11_Witness ==
    /\ Len(history) = 2
    /\ history[1] = Requested("add 1 -2")
    /\ history[2] = Requested("DIVIDE 1 -2")
    /\ io.line = "divide 1 0"
    /\ pc = "prompt"

(***************************************************************************)
(* C12                                                                     *)
(***************************************************************************)
\* C12: in calculator(), a step on a malformed line, on a line naming an
\* unsupported operation or on a division by zero prints its error report and
\* is back at the prompt, unless a keyboard interrupt ends it; and a step
\* leaves the prompt only by ending the session, on a line that is the exit
\* command, on end of input or on a keyboard interrupt.
C12_ErrorsReprompt ==
    [][ /\ Malformed(io'.line)
            => \/ Interrupted'
               \/ /\ pc' = "prompt"
                  /\ io'.out = <<"Invalid input. Please follow the format: <operation> <num1> <num2>",
                                 "Type 'help' for more information.\n">>
        /\ Unsupported(io'.line)
            => \/ Interrupted'
               \/ /\ pc' = "prompt"
                  /\ Len(io'.out) = 2
                  /\ StartsWith(io'.out[1], "Unsupported calculation type: '"
                                            \o Parse(io'.line).operation \o "'")
        /\ DividesByZero(io'.line)
            => \/ Interrupted'
               \/ /\ pc' = "prompt"
                  /\ io'.out = <<"Cannot divide by zero!", "Please enter a non-zero divisor.\n">>
        /\ pc' # "prompt"
            => \/ Interrupted'
               \/ pc' = "exited" /\ io'.path = "eof"
               \/ pc' = "exited" /\ LineRead' /\ Read(io'.line).command = "exit" ]_vars

\* A division by zero was reported with a calculation already in history, and
\* the program is at the prompt.
C12_Witness ==
    /\ pc = "prompt"
    /\ LineRead
    /\ DividesByZero(io.line)
    /\ io.out = <<"Cannot divide by zero!", "Please enter a non-zero divisor.\n">>
    /\ history # <<>>

(***************************************************************************)
(* C13                                                                     *)
(***************************************************************************)
\* C13 (as claimed): in calculator(), a step on a line whose trimmed,
\* lower-cased form is help, history or exit neither splits the line nor calls
\* create_calculation, and leaves history as it was; after help and after
\* history the program is back at the prompt; after exit the session has
\* ended.
C13_SpecialCommandsAlwaysReprompt ==
    [][ IsSpecial(io'.line)
        => /\ ~Among("split", io'.steps)
           /\ ~Among("create_calculation", io'.steps)
           /\ history' = history
           /\ Read(io'.line).command \in {"help", "history"} => pc' = "prompt"
           /\ Read(io'.line).command = "exit" => pc' # "prompt" ]_vars

\* C13 (amended): in calculator(), a step on a line whose trimmed, lower-cased
\* form is help, history or exit neither splits the line nor calls
\* create_calculation, and leaves history as it was, whether or not a
\* keyboard interrupt cuts it; unless one does, help prints the help text and
\* history prints the history, both back at the prompt, and exit prints the
\* goodbye; after exit the session has ended.
C13_SpecialCommandsFirst ==
    [][ IsSpecial(io'.line)
        => /\ ~Among("split", io'.steps)
           /\ ~Among("create_calculation", io'.steps)
           /\ history' = history
           /\ Read(io'.line).command = "help"
               => Interrupted' \/ (pc' = "prompt" /\ io'.out = display_help)
           /\ Read(io'.line).command = "history"
               => \/ Interrupted'
                  \/ pc' = "prompt" /\ io'.out = display_history(history).out
           /\ Read(io'.line).command = "exit"
               => \/ Interrupted'
                  \/ pc' = "exited" /\ io'.out = <<"Exiting calculator. Goodbye!\n">> ]_vars

\* The history command typed in mixed case with spaces around it has listed a
\* history of two calculations.
C13_Witness ==
    /\ io.line = "History "
    /\ Len(history) = 2
    /\ Len(io.out) = 3
    /\ io.out[1] = "Calculation History:"
    /\ io.steps = <<"strip", "lower", "display_history">>
    /\ pc = "prompt"

(***************************************************************************)
(* C14                                                                     *)
(***************************************************************************)
\* C14: in every state of calculator(), interrupted or not, execute() of each
\* Calculation in history returns, no DivideCalculation with b equal to zero
\* is in history, str() of each entry returns, so that
\* display_history(history) raises nothing, and no exception has left the
\* handlers of the loop but a keyboard interrupt that cut one of them.
C14_HistoryReexecutes ==
    /\ \A i \in 1..Len(history) :
           /\ execute(history[i]).exc = "None"
           /\ Calculation_str(history[i]).exc = "None"
           /\ ~(history[i].cls = "DivideCalculation" /\ IsZero(history[i].b))
    /\ display_history(history).exc = "None"
    /\ pc = "crashed" => io.path = "KeyboardInterrupt"

\* A quotient was computed, formatted and stored, then a division by zero was
\* refused, and the history command listed the stored quotient.
C14_Witness ==
    /\ Len(history) = 2
    /\ history[1].cls = "DivideCalculation"
    /\ history[2].cls = "PowerCalculation"
    /\ calc = <<Calculation("PowerCalculation", FromInt(0), FromInt(-2))>>
    /\ io.path = "history"
    /\ io.out[2] = "1. DivideCalculation: 1.0 Divide -2.0 = -0.5"

=============================================================================
